---------------------------- MODULE Spec2Model ----------------------------
(* A model of gekitchensdk/clients/base_client.py (class GeBaseClient):   *)
(* the event bus, the session state machine and the reconnect loop of     *)
(* async_run_client.                                                      *)
(*                                                                        *)
(* The client runs on one asyncio event loop.  A coroutine gives up the   *)
(* loop only where it awaits something that really suspends: the drive    *)
(* routine (_async_run_client) and the refresh login.  Awaiting           *)
(* _set_state or async_event never suspends, because async_event only     *)
(* schedules its callbacks with ensure_future.  Every action below is one *)
(* such uninterrupted stretch of code.                                    *)
EXTENDS Integers, Sequences, FiniteSets, TLC

(* ------------------------------ bounds -------------------------------- *)

\* calls of _set_connected the transport makes
MaxConnects == 2
\* calls of disconnect() made from outside the loop
MaxDisconnects == 2
\* calls of async_run_client
MaxRuns == 2
\* scheduled callbacks the event loop may have waiting when an operation starts
MaxPending == 1
\* subscriptions users add to one event
MaxSubs == 2

(* ----------------------------- constants ------------------------------ *)

\* const.MAX_RETRIES
MAX_RETRIES == 3

\* GeClientState
States ==
  {"INITIALIZING", "AUTHORIZING_OAUTH", "WAITING", "CONNECTED", "DROPPED",
   "DISCONNECTING", "DISCONNECTED"}

EVENT_STATE_CHANGED == "STATE_CHANGED"
EVENT_CONNECTED == "CONNECTED"
EVENT_DISCONNECTED == "DISCONNECTED"

\* the events of the session's life cycle
Events == {EVENT_STATE_CHANGED, EVENT_CONNECTED, EVENT_DISCONNECTED}

EVENT_APPLIANCE_INITIAL_UPDATE == "APPLIANCE_INITIAL_UPDATE"
EVENT_APPLIANCE_AVAILABLE == "APPLIANCE_AVAILABLE"
EVENT_APPLIANCE_UNAVAILABLE == "APPLIANCE_UNAVAILABLE"

\* the events about appliances
ApplianceEvents ==
  {EVENT_APPLIANCE_INITIAL_UPDATE, EVENT_APPLIANCE_AVAILABLE,
   EVENT_APPLIANCE_UNAVAILABLE}

\* every event name the client publishes; event_handlers is a
\* defaultdict(list), so each of them has a list
AllEvents == Events \cup ApplianceEvents

\* the appliances the client knows (keys of self._appliances)
Appliances == {"a1", "a2"}

\* a GeAppliance as its constructor leaves it: not available, not initialized
new_appliance == [available |-> FALSE, initialized |-> FALSE]

\* GeAppliance.set_available
set_available(ap) == [ap EXCEPT !.available = TRUE]

\* GeAppliance.set_unavailable
set_unavailable(ap) == [ap EXCEPT !.available = FALSE]

\* the bound method self._on_state_change, as a callback
OnStateChangeCb == "_on_state_change"
\* callbacks users hand to add_event_handler / remove_event_handler
UserCallbacks == {"cb1", "cb2"}
\* the builtin `callable`, which remove_event_handler names instead of its
\* parameter `callback`; nobody subscribes it
BuiltinCallable == "builtins.callable"

VARIABLES
  state,                 \* self._state
  connected,             \* self._connected
  disconnect_requested,  \* self._disconnect_requested
  retries,               \* self._retries_since_last_connect
  event_handlers,        \* self._event_handlers: event -> list of callbacks
  tasks,                 \* callbacks scheduled by ensure_future, not yet run
  pc,                    \* where async_run_client stands
  breaking,              \* the break of line 146 is pending while finally runs
  reraising,             \* an exception the except clause did not catch is pending
                         \* while finally runs
  appliances,            \* self._appliances: the appliances and their flags
  teardowns,             \* calls of the abstract _disconnect() so far
  emitted,               \* async_event calls made by the latest step
  lastOp,                \* the latest operation, its arguments and its result
  runs, connects, disconnects,   \* calls made so far
  firstIteration,        \* the first drive call of this run has not ended yet
  firstFailed,           \* this run's first drive call raised with the counter at -1
  discDuringDrive,       \* disconnect() was called while this run's drive call was in flight
  confirmed              \* _set_connected has been called at least once

vars ==
  <<state, connected, disconnect_requested, retries, event_handlers, tasks, pc,
    breaking, reraising, appliances, teardowns, emitted, lastOp, runs, connects,
    disconnects, firstIteration, firstFailed, discDuringDrive, confirmed>>

(* ------------------------- the client object -------------------------- *)

\* The fields the methods read and write, with the publications of the
\* step so far.
Self ==
  [state |-> state, connected |-> connected,
   disconnect_requested |-> disconnect_requested, retries |-> retries,
   event_handlers |-> event_handlers, tasks |-> tasks, pc |-> pc,
   breaking |-> breaking, reraising |-> reraising, appliances |-> appliances,
   teardowns |-> teardowns, emitted |-> <<>>]

Commit(c) ==
  /\ state' = c.state
  /\ connected' = c.connected
  /\ disconnect_requested' = c.disconnect_requested
  /\ retries' = c.retries
  /\ event_handlers' = c.event_handlers
  /\ tasks' = c.tasks
  /\ pc' = c.pc
  /\ breaking' = c.breaking
  /\ reraising' = c.reraising
  /\ appliances' = c.appliances
  /\ teardowns' = c.teardowns
  /\ emitted' = c.emitted

Op(name, arg, ret) == [name |-> name, arg |-> arg, ret |-> ret]

NoArg == <<>>

(* ----------------------------- event bus ------------------------------ *)

\* async_event: one ensure_future per registered callback, in list order.
async_event_first_only(c, event, args) ==
  LET hs == c.event_handlers[event]
  IN [c EXCEPT
        !.tasks = @ \o [i \in 1..(IF hs = <<>> THEN 0 ELSE 1) |->
                          [cb |-> hs[i], args |-> args]],
        !.emitted = Append(@, [event |-> event, args |-> args])]

\* lines 110-113: async_event(event, *args); ensure_future schedules the
\* callback's coroutine on the loop and runs none of it
async_event(c, event, args) ==
  LET hs == c.event_handlers[event]
  IN [c EXCEPT
        !.tasks = @ \o [i \in 1..Len(hs) |-> [cb |-> hs[i], args |-> args]],
        !.emitted = Append(@, [event |-> event, args |-> args])]

\* lines 115-118 with the callback put at the front of the list
add_event_handler_prepends(c, event, callback) ==
  [c EXCEPT !.event_handlers[event] = <<callback>> \o @]

\* add_event_handler with disposable = False
add_event_handler(c, event, callback) ==
  [c EXCEPT !.event_handlers[event] = Append(@, callback)]

\* mutant: the reset forgets to register _on_state_change again
initialize_event_handlers_no_listener(c) ==
  [c EXCEPT !.event_handlers = [e \in AllEvents |-> <<>>]]

\* _initialize_event_handlers
initialize_event_handlers(c) ==
  add_event_handler([c EXCEPT !.event_handlers = [e \in AllEvents |-> <<>>]],
                    EVENT_STATE_CHANGED, OnStateChangeCb)

\* lines 126-127 emptying every list and registering nothing again
clear_event_handlers_empties(c) ==
  [c EXCEPT !.event_handlers = [e \in AllEvents |-> <<>>]]

\* clear_event_handlers
clear_event_handlers(c) == initialize_event_handlers(c)

(* --------------------------- session state ---------------------------- *)

\* _set_state: the value it returns
set_state_ret(c, new_state) == c.state # new_state

\* mutant: publishes whether or not the state changes
set_state_always_publishes(c, new_state) ==
  async_event([c EXCEPT !.state = new_state], EVENT_STATE_CHANGED,
              <<c.state, new_state>>)

\* _set_state: the client after the call
set_state(c, new_state) ==
  IF c.state # new_state
  THEN async_event([c EXCEPT !.state = new_state], EVENT_STATE_CHANGED,
                   <<c.state, new_state>>)
  ELSE c

\* _on_state_change
on_state_change(c, old_state, new_state) ==
  LET c1 == IF new_state = "CONNECTED" THEN async_event(c, EVENT_CONNECTED, NoArg)
            ELSE c
  IN IF new_state = "DISCONNECTED" THEN async_event(c1, EVENT_DISCONNECTED, NoArg)
     ELSE c1

\* _set_connected
set_connected(c) == set_state([c EXCEPT !.retries = -1], "CONNECTED")

\* disconnect
disconnect(c) ==
  LET c1 == set_state(c, "DISCONNECTING")
      c2 == [c1 EXCEPT !.disconnect_requested = TRUE, !.connected = FALSE,
                       !.teardowns = @ + 1]
  IN set_state(c2, "DISCONNECTED")

\* list.remove(x): drops the first element equal to x, raises ValueError
\* when there is none
list_remove(l, x) ==
  IF \E i \in 1..Len(l) : l[i] = x
  THEN LET k == CHOOSE i \in 1..Len(l) :
                  l[i] = x /\ \A j \in 1..(i - 1) : l[j] # x
       IN [raised |-> FALSE,
           list |-> [i \in 1..(Len(l) - 1) |-> IF i < k THEN l[i] ELSE l[i + 1]]]
  ELSE [raised |-> TRUE, list |-> l]

\* mutant: no try/except around the removal
remove_event_handler_no_except(c, event, callback) ==
  LET r == list_remove(c.event_handlers[event], BuiltinCallable)
  IN IF r.raised
     THEN [client |-> c, ret |-> "raised"]
     ELSE [client |-> [c EXCEPT !.event_handlers[event] = r.list],
           ret |-> "removed"]

\* remove_event_handler: what the try block removes is the builtin
\* `callable`, not the parameter `callback`; the bare except swallows the
\* ValueError and logs a warning.  ret: "raised", "warned" or "removed".
remove_event_handler(c, event, callback) ==
  LET r == list_remove(c.event_handlers[event], BuiltinCallable)
  IN IF r.raised
     THEN [client |-> c, ret |-> "warned"]
     ELSE [client |-> [c EXCEPT !.event_handlers[event] = r.list],
           ret |-> "removed"]

(* ----------------------------- appliances ----------------------------- *)

\* lines 284-294 without line 292: the event is published and the flag is
\* left as it was
maybe_trigger_appliance_init_event_no_flag(c, a, has_appliance_type) ==
  IF has_appliance_type /\ ~c.appliances[a].initialized
  THEN async_event(c, EVENT_APPLIANCE_INITIAL_UPDATE, <<a>>)
  ELSE c

\* lines 284-294: _maybe_trigger_appliance_init_event((appliance, state_changes));
\* has_appliance_type is ErdCode.APPLIANCE_TYPE in state_changes
maybe_trigger_appliance_init_event(c, a, has_appliance_type) ==
  IF has_appliance_type /\ ~c.appliances[a].initialized
  THEN async_event([c EXCEPT !.appliances[a].initialized = TRUE],
                   EVENT_APPLIANCE_INITIAL_UPDATE, <<a>>)
  ELSE c

\* lines 296-302 with the tests on appliance.available left out
set_appliance_availability_unguarded(c, a, available) ==
  IF available
  THEN async_event([c EXCEPT !.appliances[a] = set_available(@)],
                   EVENT_APPLIANCE_AVAILABLE, <<a>>)
  ELSE async_event([c EXCEPT !.appliances[a] = set_unavailable(@)],
                   EVENT_APPLIANCE_UNAVAILABLE, <<a>>)

\* lines 296-302: _set_appliance_availability(appliance, available)
set_appliance_availability(c, a, available) ==
  IF available /\ ~c.appliances[a].available
  THEN async_event([c EXCEPT !.appliances[a] = set_available(@)],
                   EVENT_APPLIANCE_AVAILABLE, <<a>>)
  ELSE IF ~available /\ c.appliances[a].available
  THEN async_event([c EXCEPT !.appliances[a] = set_unavailable(@)],
                   EVENT_APPLIANCE_UNAVAILABLE, <<a>>)
  ELSE c

(* -------------------------- reconnect loop ---------------------------- *)

\* Calling an `async def` without awaiting it builds a coroutine object and
\* runs none of its body: the client stays as it was before the call.
coroutine_not_awaited(before, after) == before

\* mutant: the retry check is off by one
RetriesExhausted_off_by_one(r) == r > MAX_RETRIES + 1

\* line 139: if self._retries_since_last_connect > MAX_RETRIES
RetriesExhausted(r) == r > MAX_RETRIES

\* line 144: if self._retries_since_last_connect == -1
FirstConnectAttempt(r) == r = -1

\* lines 161-162, after the loop: self.disconnect() is not awaited
LoopExit(c) ==
  [coroutine_not_awaited(c, disconnect(c)) EXCEPT
     !.pc = "done", !.breaking = FALSE, !.reraising = FALSE]

\* an exception leaves async_run_client: line 162 is not reached
Escape(c) == [c EXCEPT !.pc = "raised", !.breaking = FALSE, !.reraising = FALSE]

\* lines 138-142: the loop condition, the retry check, and the call of the
\* drive routine, where the loop suspends
LoopHead(c) ==
  IF c.disconnect_requested \/ RetriesExhausted(c.retries)
  THEN LoopExit(c)
  ELSE [c EXCEPT !.pc = "drive", !.breaking = FALSE]

\* line 159 and what follows it: the increment, then the pending break of
\* line 146 if there is one, or the pending exception, else the next
\* iteration
IterationEnd(c) ==
  LET c1 == [c EXCEPT !.retries = @ + 1]
  IN IF c.breaking THEN LoopExit(c1)
     ELSE IF c.reraising THEN Escape(c1)
     ELSE LoopHead(c1)

\* mutant: the finally clause does not look at the flag
RetryWanted_ignores_flag(c) == TRUE

\* line 150: if not self._disconnect_requested
RetryWanted(c) == ~c.disconnect_requested

\* lines 147-159 without line 149: the state goes to WAITING from wherever
\* the drive call left it
Finally_skips_dropped(c) ==
  IF RetryWanted(c)
  THEN LET c2 == set_state(c, "WAITING")
           c3 == coroutine_not_awaited(c2, [c2 EXCEPT !.pc = "sleeping"])
       IN [c3 EXCEPT !.pc = "refresh"]
  ELSE IterationEnd(c)

\* lines 148-159, the finally clause, up to where it suspends (the refresh
\* login) or ends.  asyncio.sleep(5) on line 153 is not awaited.
Finally(c) ==
  LET c1 == set_state(c, "DROPPED")
  IN IF RetryWanted(c1)
     THEN LET c2 == set_state(c1, "WAITING")
              c3 == coroutine_not_awaited(c2, [c2 EXCEPT !.pc = "sleeping"])
          IN [c3 EXCEPT !.pc = "refresh"]
     ELSE IterationEnd(c1)

\* lines 143-147: the except clause; break leaves through finally
Except(c) ==
  IF FirstConnectAttempt(c.retries)
  THEN Finally([c EXCEPT !.breaking = TRUE])
  ELSE Finally(c)

\* line 143 does not match: a BaseException that is no Exception (a
\* CancelledError, a KeyboardInterrupt) skips the except clause, runs the
\* finally clause and is raised again after it
Uncaught(c) == Finally([c EXCEPT !.reraising = TRUE])

\* lines 134-137 with the counter set back at the start of every run
async_run_client_resets(c) ==
  LoopHead([c EXCEPT !.disconnect_requested = FALSE, !.retries = -1])

\* lines 134-137, then the loop
async_run_client(c) == LoopHead([c EXCEPT !.disconnect_requested = FALSE])

\* _async_refresh_oauth2_token, its first statement (line 263)
refresh_begin(c) == [set_state(c, "AUTHORIZING_OAUTH") EXCEPT !.pc = "refresh_io"]

\* _async_get_oauth2_token, its first statement (line 201)
full_login_begin(c) == set_state(c, "AUTHORIZING_OAUTH")

\* lines 155-156 without the except clause of lines 157-158
RefreshFailed_propagates(c) == Escape(c)

\* lines 155-159 with the break of line 158 left out: the iteration goes on
\* to line 159
RefreshFailed_goes_on(c) == IterationEnd(c)

\* lines 157-158: except: break (the increment of line 159 is skipped; a
\* break in a finally clause drops the exception that was pending)
RefreshFailed(c) == LoopExit(c)

(* --------------------------- initial state ---------------------------- *)

\* __init__
Init ==
  /\ state = "INITIALIZING"
  /\ connected = FALSE
  /\ disconnect_requested = FALSE
  /\ retries = -1
  /\ event_handlers =
       [e \in AllEvents |-> IF e = EVENT_STATE_CHANGED THEN <<OnStateChangeCb>> ELSE <<>>]
  /\ tasks = <<>>
  /\ pc = "idle"
  /\ breaking = FALSE
  /\ reraising = FALSE
  /\ appliances = [a \in Appliances |-> new_appliance]
  /\ teardowns = 0
  /\ emitted = <<>>
  /\ lastOp = Op("__init__", NoArg, NoArg)
  /\ runs = 0
  /\ connects = 0
  /\ disconnects = 0
  /\ firstIteration = FALSE
  /\ firstFailed = FALSE
  /\ discDuringDrive = FALSE
  /\ confirmed = FALSE

\* the event loop has room for the callbacks one more operation schedules
LoopHasRoom == Len(tasks) <= MaxPending

(* ------------------- actions of the reconnect loop -------------------- *)

\* a caller starts async_run_client
Run ==
  /\ pc \in {"idle", "done", "raised"}
  /\ runs < MaxRuns
  /\ Commit(async_run_client(Self))
  /\ runs' = runs + 1
  /\ lastOp' = Op("async_run_client", NoArg, NoArg)
  /\ firstIteration' = TRUE
  /\ firstFailed' = FALSE
  /\ discDuringDrive' = FALSE
  /\ UNCHANGED <<connects, disconnects, confirmed>>

\* async_get_credentials before the client runs: the full login starts
FullLogin ==
  /\ pc = "idle"
  /\ LoopHasRoom
  /\ Commit(full_login_begin(Self))
  /\ lastOp' = Op("async_get_credentials", NoArg, NoArg)
  /\ UNCHANGED <<runs, connects, disconnects, firstIteration, firstFailed,
                 discDuringDrive, confirmed>>

\* the transport, inside the drive routine, confirms the connection
SetConnected ==
  /\ pc = "drive"
  /\ connects < MaxConnects
  /\ LoopHasRoom
  /\ Commit(set_connected(Self))
  /\ connects' = connects + 1
  /\ confirmed' = TRUE
  /\ lastOp' = Op("_set_connected", NoArg, NoArg)
  /\ UNCHANGED <<runs, disconnects, firstIteration, firstFailed, discDuringDrive>>

\* the drive routine returns
DriveReturns ==
  /\ pc = "drive"
  /\ LoopHasRoom
  /\ Commit(Finally(Self))
  /\ firstIteration' = FALSE
  /\ lastOp' = Op("drive_returned", NoArg, NoArg)
  /\ UNCHANGED <<runs, connects, disconnects, firstFailed, discDuringDrive, confirmed>>

\* the drive routine raises an Exception
DriveRaises ==
  /\ pc = "drive"
  /\ LoopHasRoom
  /\ Commit(Except(Self))
  /\ firstIteration' = FALSE
  /\ firstFailed' = (firstFailed \/ (firstIteration /\ retries = -1))
  /\ lastOp' = Op("drive_raised", NoArg, NoArg)
  /\ UNCHANGED <<runs, connects, disconnects, discDuringDrive, confirmed>>

\* the drive routine raises a BaseException that is no Exception
DriveRaisesBase ==
  /\ pc = "drive"
  /\ LoopHasRoom
  /\ Commit(Uncaught(Self))
  /\ firstIteration' = FALSE
  /\ lastOp' = Op("drive_raised_base", NoArg, NoArg)
  /\ UNCHANGED <<runs, connects, disconnects, firstFailed, discDuringDrive, confirmed>>

\* the refresh login runs up to its request
RefreshBegin ==
  /\ pc = "refresh"
  /\ LoopHasRoom
  /\ Commit(refresh_begin(Self))
  /\ lastOp' = Op("refresh_begin", NoArg, NoArg)
  /\ UNCHANGED <<runs, connects, disconnects, firstIteration, firstFailed,
                 discDuringDrive, confirmed>>

\* the refresh login returns
RefreshReturns ==
  /\ pc = "refresh_io"
  /\ Commit(IterationEnd(Self))
  /\ lastOp' = Op("refresh_returned", NoArg, NoArg)
  /\ UNCHANGED <<runs, connects, disconnects, firstIteration, firstFailed,
                 discDuringDrive, confirmed>>

\* the refresh login raises
RefreshRaises ==
  /\ pc = "refresh_io"
  /\ Commit(RefreshFailed(Self))
  /\ lastOp' = Op("refresh_raised", NoArg, NoArg)
  /\ UNCHANGED <<runs, connects, disconnects, firstIteration, firstFailed,
                 discDuringDrive, confirmed>>

\* somebody awaits disconnect() while the loop is suspended or not running
Disconnect ==
  /\ disconnects < MaxDisconnects
  /\ LoopHasRoom
  /\ Commit(disconnect(Self))
  /\ disconnects' = disconnects + 1
  /\ discDuringDrive' = (discDuringDrive \/ pc = "drive")
  /\ lastOp' = Op("disconnect", NoArg, NoArg)
  /\ UNCHANGED <<runs, connects, firstIteration, firstFailed, confirmed>>

\* the event loop runs the callback scheduled first; a user's callback
\* returns or raises, and what it raises stays in its own task
RunTask ==
  /\ tasks # <<>>
  /\ LET t == Head(tasks)
         c == [Self EXCEPT !.tasks = Tail(tasks)]
     IN IF t.cb = OnStateChangeCb
        THEN /\ Commit(on_state_change(c, t.args[1], t.args[2]))
             /\ lastOp' = Op("callback", <<t.cb, t.args>>, "returned")
        ELSE /\ Commit(c)
             /\ \E outcome \in {"returned", "raised"} :
                  lastOp' = Op("callback", <<t.cb, t.args>>, outcome)
  /\ UNCHANGED <<runs, connects, disconnects, firstIteration, firstFailed,
                 discDuringDrive, confirmed>>

Next ==
  \/ Run
  \/ FullLogin
  \/ SetConnected
  \/ DriveReturns
  \/ DriveRaises
  \/ DriveRaisesBase
  \/ RefreshBegin
  \/ RefreshReturns
  \/ RefreshRaises
  \/ Disconnect
  \/ RunTask

Spec == Init /\ [][Next]_vars

(* --------------------- actions of the event bus ----------------------- *)

BusFrame ==
  UNCHANGED <<runs, connects, disconnects, firstIteration, firstFailed,
              discDuringDrive, confirmed>>

\* a user subscribes a callback
Subscribe(event, callback) ==
  /\ Len(event_handlers[event]) < MaxSubs
  /\ Commit(add_event_handler(Self, event, callback))
  /\ lastOp' = Op("add_event_handler", <<event, callback>>, "returned")
  /\ BusFrame

\* a user unsubscribes a callback, registered or not
Unsubscribe(event, callback) ==
  /\ LET r == remove_event_handler(Self, event, callback)
     IN /\ Commit(r.client)
        /\ lastOp' = Op("remove_event_handler", <<event, callback>>, r.ret)
  /\ BusFrame

\* how many callbacks are subscribed, over all events
Subscribed(handlers) ==
  LET RECURSIVE Sum(_)
      Sum(es) == IF es = {} THEN 0
                 ELSE LET e == CHOOSE x \in es : TRUE
                      IN Len(handlers[e]) + Sum(es \ {e})
  IN Sum(DOMAIN handlers)

\* a user clears the subscriptions
Clear ==
  /\ Commit(clear_event_handlers(Self))
  /\ lastOp' = Op("clear_event_handlers", Subscribed(event_handlers), "returned")
  /\ BusFrame

\* a collaborator awaits _set_state(new_state)
SetState(new_state) ==
  /\ LoopHasRoom
  /\ Commit(set_state(Self, new_state))
  /\ lastOp' = Op("_set_state", new_state, set_state_ret(Self, new_state))
  /\ BusFrame

\* subscriptions only
NextSubs ==
  \/ \E e \in Events, cb \in UserCallbacks : Subscribe(e, cb)
  \/ \E e \in Events, cb \in UserCallbacks \cup {OnStateChangeCb} : Unsubscribe(e, cb)
  \/ Clear

SpecSubs == Init /\ [][NextSubs]_vars

\* the states collaborators pass to _set_state here: the two that have an
\* event of their own, and one that has none
SetStateInputs == {"CONNECTED", "DROPPED", "DISCONNECTED"}

\* the events a user subscribes to here: the one whose list holds
\* _on_state_change, and one that _on_state_change publishes
BusEvents == {EVENT_STATE_CHANGED, EVENT_CONNECTED}

\* subscriptions of one user callback, state changes and the event loop
NextBus ==
  \/ \E e \in BusEvents : Subscribe(e, "cb1")
  \/ \E cb \in {"cb1", OnStateChangeCb} : Unsubscribe(EVENT_STATE_CHANGED, cb)
  \/ Clear
  \/ \E s \in SetStateInputs : SetState(s)
  \/ RunTask

SpecBus == Init /\ [][NextBus]_vars

\* the event loop keeps running the callbacks it has scheduled
FairSpecBus == SpecBus /\ WF_vars(RunTask)

(* --------------------- actions on the appliances ---------------------- *)

\* a transport awaits _set_appliance_availability(appliance, available)
SetApplianceAvailability(a, available) ==
  /\ LoopHasRoom
  /\ Commit(set_appliance_availability(Self, a, available))
  /\ lastOp' = Op("_set_appliance_availability", <<a, available>>, "returned")
  /\ BusFrame

\* an update of an appliance arrives, with or without its type, and
\* _maybe_trigger_appliance_init_event runs on it
ApplianceUpdate(a, has_appliance_type) ==
  /\ LoopHasRoom
  /\ Commit(maybe_trigger_appliance_init_event(Self, a, has_appliance_type))
  /\ lastOp' = Op("_maybe_trigger_appliance_init_event", <<a, has_appliance_type>>,
                  "returned")
  /\ BusFrame

\* the events a user subscribes to here
ApplianceBusEvents == {EVENT_APPLIANCE_AVAILABLE, EVENT_APPLIANCE_INITIAL_UPDATE}

\* appliances that come and go, their updates, one user callback and the
\* event loop
NextAppliances ==
  \/ \E e \in ApplianceBusEvents : Subscribe(e, "cb1")
  \/ \E a \in Appliances, available \in BOOLEAN : SetApplianceAvailability(a, available)
  \/ \E a \in Appliances, has_appliance_type \in BOOLEAN :
       ApplianceUpdate(a, has_appliance_type)
  \/ RunTask

SpecAppliances == Init /\ [][NextAppliances]_vars

(* ------------------------------ claims -------------------------------- *)

Range(l) == {l[i] : i \in 1..Len(l)}

InFlight == pc \in {"drive", "refresh", "refresh_io"}

\* C1: when the loop of async_run_client has exited, and nobody else has
\* called disconnect(), the disconnect sequence has run once: _disconnect
\* was called once, disconnect is requested and the state is DISCONNECTED.
C1_LoopExitDisconnects ==
  (pc = "done" /\ disconnects = 0) =>
    (teardowns = 1 /\ disconnect_requested /\ state = "DISCONNECTED")

\* C2: a drive failure after _set_connected has confirmed a connection is
\* retried: the loop goes to WAITING and invokes the refresh login, and when
\* the refresh login returns (no disconnect requested, retries not used up)
\* the drive routine is invoked again.
C2_FailureAfterConnectRetries ==
  [][/\ (lastOp'.name = "drive_raised" /\ confirmed /\ ~disconnect_requested) =>
          (state' = "WAITING" /\ pc' = "refresh")
     /\ (lastOp'.name = "refresh_returned" /\ confirmed /\ ~disconnect_requested'
           /\ ~reraising /\ retries' <= MAX_RETRIES) =>
          pc' = "drive"]_vars

\* C3: once the first drive call of a run has raised with the counter at
\* -1 (and nobody has called disconnect()), the drive routine is not in
\* flight again in that run, and the counter is still -1 when the loop has
\* exited.
C3_FirstFailureAborts ==
  (firstFailed /\ disconnects = 0) =>
    (pc # "drive" /\ (pc = "done" => retries = -1))

\* C4: once disconnect() has been called during a drive call, the rest of
\* that run neither enters WAITING, nor invokes the refresh login, nor
\* invokes the drive routine again.
C4_DisconnectDuringDrive ==
  [][(discDuringDrive /\ runs' = runs) =>
       /\ state' # "WAITING"
       /\ pc' \notin {"refresh", "refresh_io"}
       /\ (pc' = "drive" => pc = "drive")]_vars

\* C4 witness: the drive call during which disconnect() was called has ended
C4_Witness ==
  /\ discDuringDrive
  /\ pc = "done"
  /\ lastOp.name \in {"drive_returned", "drive_raised"}

\* C5: _set_state with a new state sets it, publishes STATE_CHANGED(old,
\* new) exactly once and returns True; with the current state it publishes
\* nothing, schedules nothing, leaves the state and returns False.
C5_SetStateContract ==
  [][lastOp'.name = "_set_state" =>
       IF lastOp'.arg # state
       THEN /\ state' = lastOp'.arg
            /\ emitted' = <<[event |-> EVENT_STATE_CHANGED,
                             args |-> <<state, lastOp'.arg>>]>>
            /\ lastOp'.ret = TRUE
       ELSE /\ state' = state
            /\ emitted' = <<>>
            /\ tasks' = tasks
            /\ lastOp'.ret = FALSE]_vars

\* C5 witness: a _set_state call that changed the state
C5_Witness ==
  /\ lastOp.name = "_set_state"
  /\ lastOp.ret = TRUE
  /\ Len(emitted) = 1

\* the scheduled calls of _on_state_change that carry an entry into s
PendingEntries(q, s) ==
  {i \in 1..Len(q) : q[i].cb = OnStateChangeCb /\ q[i].args[2] = s}

\* C6: every entry into CONNECTED or DISCONNECTED publishes STATE_CHANGED
\* and schedules _on_state_change exactly once; when that call runs it
\* publishes the state's own event exactly once; and every scheduled call
\* runs in the end.
C6_SpecificEvents ==
  /\ [][\A s \in {"CONNECTED", "DISCONNECTED"} :
          /\ (state' = s /\ state # s) =>
                /\ emitted' = <<[event |-> EVENT_STATE_CHANGED, args |-> <<state, s>>]>>
                /\ Cardinality(PendingEntries(tasks', s)) =
                     Cardinality(PendingEntries(tasks, s)) + 1
          /\ (lastOp'.name = "callback" /\ lastOp'.arg[1] = OnStateChangeCb
                /\ lastOp'.arg[2][2] = s) =>
                emitted' = <<[event |-> s, args |-> NoArg]>>]_vars
  /\ \A s \in {"CONNECTED", "DISCONNECTED"} :
       (PendingEntries(tasks, s) # {}) ~>
          (lastOp.name = "callback" /\ lastOp.arg[1] = OnStateChangeCb
             /\ lastOp.arg[2][2] = s)

\* C6 witness: _on_state_change has run for an entry into CONNECTED and
\* published CONNECTED, with a user subscribed to that event
C6_Witness ==
  /\ lastOp.name = "callback"
  /\ lastOp.arg[1] = OnStateChangeCb
  /\ lastOp.arg[2][2] = "CONNECTED"
  /\ emitted = <<[event |-> EVENT_CONNECTED, args |-> NoArg]>>
  /\ event_handlers[EVENT_CONNECTED] # <<>>

\* C7: no drive call and no refresh login is in flight while the counter
\* is above MAX_RETRIES.
C7_NoAttemptBeyondMax == InFlight => retries <= MAX_RETRIES

\* C7 witness: the loop has exited because the counter went above
\* MAX_RETRIES
C7_Witness == pc = "done" /\ retries > MAX_RETRIES /\ ~disconnect_requested

\* C8: remove_event_handler of a registered callback removes its first
\* occurrence from that event's list and changes no other list.
C8_UnsubscribeRemovesFirst ==
  [][(/\ lastOp'.name = "remove_event_handler"
      /\ lastOp'.arg[2] \in Range(event_handlers[lastOp'.arg[1]])) =>
       event_handlers' =
         [event_handlers EXCEPT ![lastOp'.arg[1]] = list_remove(@, lastOp'.arg[2]).list]]_vars

\* C9: remove_event_handler of a callback that is not registered for the
\* event does not raise and leaves every subscriber list as it was.
C9_UnsubscribeUnknown ==
  [][(/\ lastOp'.name = "remove_event_handler"
      /\ lastOp'.arg[2] \notin Range(event_handlers[lastOp'.arg[1]])) =>
       (lastOp'.ret # "raised" /\ event_handlers' = event_handlers)]_vars

\* C9 witness: an unsubscription of a callback that is not registered, made
\* while other callbacks are
C9_Witness ==
  /\ lastOp.name = "remove_event_handler"
  /\ lastOp.arg[2] \notin Range(event_handlers[lastOp.arg[1]])
  /\ event_handlers[lastOp.arg[1]] # <<>>

\* C10: disconnect() called when the state is DISCONNECTED makes no state
\* transition, publishes nothing and schedules nothing.
C10_DisconnectRepeatable ==
  [][(state = "DISCONNECTED" /\ lastOp'.name = "disconnect") =>
       (state' = "DISCONNECTED" /\ emitted' = <<>> /\ tasks' = tasks)]_vars

\* C11: _set_appliance_availability publishes exactly one event for each
\* flip of an appliance's availability flag, APPLIANCE_AVAILABLE when the
\* flag goes up and APPLIANCE_UNAVAILABLE when it goes down, with the
\* appliance as its argument; when the requested value is the one the flag
\* already has, it publishes nothing and changes nothing.
C11_AvailabilityFlips ==
  [][lastOp'.name = "_set_appliance_availability" =>
       LET a == lastOp'.arg[1]
           available == lastOp'.arg[2]
       IN IF appliances[a].available # available
          THEN /\ appliances' = [appliances EXCEPT ![a].available = available]
               /\ emitted' = <<[event |-> IF available THEN EVENT_APPLIANCE_AVAILABLE
                                          ELSE EVENT_APPLIANCE_UNAVAILABLE,
                                args |-> <<a>>]>>
          ELSE /\ appliances' = appliances
               /\ emitted' = <<>>
               /\ tasks' = tasks]_vars

\* an appliance has gone down again after it came up, with a subscriber
\* of APPLIANCE_AVAILABLE registered
C11_Witness ==
  /\ lastOp.name = "_set_appliance_availability"
  /\ lastOp.arg = <<"a1", FALSE>>
  /\ ~appliances["a1"].available
  /\ emitted = <<[event |-> EVENT_APPLIANCE_UNAVAILABLE, args |-> <<"a1">>]>>
  /\ event_handlers[EVENT_APPLIANCE_AVAILABLE] # <<>>

\* the tasks async_event schedules for one publication: one for each
\* registration of the event, in the order of the subscriptions
Scheduled(handlers, publication) ==
  [i \in 1..Len(handlers[publication.event]) |->
     [cb |-> handlers[publication.event][i], args |-> publication.args]]

\* C12: async_event schedules every callback registered for the event,
\* once for each registration and in the order of the subscriptions, and
\* its caller goes on without any of them having run: they are all still
\* queued behind what was queued before.  A callback that raises takes
\* nothing with it: the callbacks queued behind it stay queued, and the
\* client that published is left as it was.
C12_FireAndForget ==
  [][/\ Len(emitted') = 1 =>
          tasks' = (IF lastOp'.name = "callback" THEN Tail(tasks) ELSE tasks)
                     \o Scheduled(event_handlers', emitted'[1])
     /\ (lastOp'.name = "callback" /\ lastOp'.ret = "raised") =>
          /\ tasks' = Tail(tasks)
          /\ UNCHANGED <<state, connected, disconnect_requested, retries,
                         event_handlers, pc, appliances>>]_vars

\* a callback registered twice for CONNECTED has raised on its first run,
\* and its second run is the next thing the loop will do
C12_Witness ==
  /\ lastOp.name = "callback"
  /\ lastOp.ret = "raised"
  /\ event_handlers[EVENT_CONNECTED] = <<"cb1", "cb1">>
  /\ tasks # <<>>
  /\ Head(tasks) = [cb |-> lastOp.arg[1], args |-> lastOp.arg[2]]

\* C13, as claimed: async_run_client never ends by raising, whatever the
\* drive routine or the refresh login raises.
C13_NoErrorEscapes == pc # "raised"

\* C13, amended: async_run_client never lets an Exception of the drive
\* routine, nor anything the refresh login raises, escape: the step that
\* handles it leaves the loop running or ends the run normally.  It ends
\* by raising only for a BaseException of the drive routine that is no
\* Exception, in the iteration where that one was raised.
C13_NoExceptionEscapes ==
  [][/\ lastOp'.name \in {"drive_raised", "refresh_raised"} =>
          pc' \in {"refresh", "done"}
     /\ (pc' = "raised" /\ pc # "raised") =>
          \/ lastOp'.name = "drive_raised_base"
          \/ reraising /\ lastOp'.name = "refresh_returned"]_vars

\* the refresh login has raised in a retry, after one iteration or more
\* had ended, and the run has ended normally
C13_Witness ==
  /\ lastOp.name = "refresh_raised"
  /\ pc = "done"
  /\ retries >= 1

\* C14: when clear_event_handlers has returned, whatever was subscribed
\* before, every event has an empty list of callbacks, except STATE_CHANGED,
\* whose list holds _on_state_change and nothing else.
C14_ClearResets ==
  lastOp.name = "clear_event_handlers" =>
    /\ DOMAIN event_handlers = AllEvents
    /\ \A e \in AllEvents :
         event_handlers[e] =
           IF e = EVENT_STATE_CHANGED THEN <<OnStateChangeCb>> ELSE <<>>

\* clear_event_handlers has returned, and three callbacks or more of users
\* were subscribed when it was called
C14_Witness ==
  /\ lastOp.name = "clear_event_handlers"
  /\ lastOp.arg >= 4
  /\ event_handlers[EVENT_STATE_CHANGED] = <<OnStateChangeCb>>

\* the state changes a step has made: the pairs (old, new) that _set_state
\* has published in it
StateChanges(publications) ==
  {publications[i].args :
     i \in {k \in 1..Len(publications) : publications[k].event = EVENT_STATE_CHANGED}}

\* the transitions of the documented table
DocumentedTransitions ==
  {<<"INITIALIZING", "AUTHORIZING_OAUTH">>, <<"AUTHORIZING_OAUTH", "CONNECTED">>,
   <<"CONNECTED", "DROPPED">>, <<"DROPPED", "WAITING">>,
   <<"WAITING", "AUTHORIZING_OAUTH">>, <<"DISCONNECTING", "DISCONNECTED">>}
    \cup {<<s, "DISCONNECTING">> : s \in States \ {"DISCONNECTING"}}

\* C15, as claimed: every state change made by the logins, by
\* async_run_client, by _set_connected and by disconnect is a transition of
\* the documented table; DROPPED is entered from CONNECTED only.
C15_DocumentedTransitions ==
  [][StateChanges(emitted') \subseteq DocumentedTransitions]_vars

\* what the code does: a state that an operation sets is entered from
\* whatever state the client was in; only WAITING and DISCONNECTED always
\* follow the state set just before them
CodeTransitions ==
  {<<"DROPPED", "WAITING">>, <<"DISCONNECTING", "DISCONNECTED">>}
    \cup {<<s, t>> \in States \X {"AUTHORIZING_OAUTH", "CONNECTED", "DROPPED",
                                   "DISCONNECTING"} : s # t}

\* C15, amended: every state change is to AUTHORIZING_OAUTH (a login or a
\* refresh login begins), to CONNECTED (_set_connected), to DROPPED (a drive
\* call has ended), to DISCONNECTING (disconnect), each from any other
\* state, or is DROPPED -> WAITING or DISCONNECTING -> DISCONNECTED; no
\* state change enters INITIALIZING.
C15_CodeTransitions ==
  [][StateChanges(emitted') \subseteq CodeTransitions]_vars

\* a drive call has ended before the session was connected, and the state
\* has gone from AUTHORIZING_OAUTH to DROPPED
C15_Witness ==
  /\ lastOp.name \in {"drive_returned", "drive_raised"}
  /\ <<"AUTHORIZING_OAUTH", "DROPPED">> \in StateChanges(emitted)

\* C16: when the refresh login of the finally clause raises, the loop is
\* left at once: _retries_since_last_connect is not incremented for that
\* iteration, and the drive routine is not called again before
\* async_run_client is called again.
C16_RefreshFailureAborts ==
  [][/\ lastOp'.name = "refresh_raised" =>
          /\ pc' = "done"
          /\ retries' = retries
     /\ (pc = "done" /\ pc' # "done") => runs' = runs + 1]_vars

\* the refresh login has raised in the second iteration of a run, and the
\* counter is where the first iteration left it
C16_Witness ==
  /\ lastOp.name = "refresh_raised"
  /\ pc = "done"
  /\ retries = 0
  /\ ~disconnect_requested

DriveEnds == {"drive_returned", "drive_raised", "drive_raised_base"}

\* C18: _retries_since_last_connect is set back to -1 by _set_connected and
\* by nothing else: no other step makes it smaller.  It grows only at the
\* end of a loop iteration, by one: every iteration that gets to line 159,
\* with its refresh login returned or skipped, adds exactly 1.
C18_RetryCounterFrame ==
  [][/\ lastOp'.name = "_set_connected" => retries' = -1
     /\ retries' < retries => lastOp'.name = "_set_connected"
     /\ retries' > retries =>
          /\ retries' = retries + 1
          /\ lastOp'.name \in DriveEnds \cup {"refresh_returned"}
     /\ lastOp'.name = "refresh_returned" => retries' = retries + 1
     /\ (lastOp'.name \in DriveEnds /\ pc' # "refresh") =>
          retries' = retries + 1]_vars

\* a second run of async_run_client has started after retries of the
\* first, and the counter is where those left it
C18_Witness ==
  /\ lastOp.name = "async_run_client"
  /\ runs = 2
  /\ retries >= 1

\* C19: for each appliance APPLIANCE_INITIAL_UPDATE is published at most
\* once, over any sequence of updates: an update that carries the
\* appliance type while the appliance is not initialized sets the
\* initialized flag and publishes the event once; any other update
\* publishes nothing and changes nothing; the event is never published for
\* an appliance that is initialized, and the flag is never cleared.
C19_InitialUpdateOnce ==
  [][/\ lastOp'.name = "_maybe_trigger_appliance_init_event" =>
          LET a == lastOp'.arg[1]
              has_appliance_type == lastOp'.arg[2]
          IN IF has_appliance_type /\ ~appliances[a].initialized
             THEN /\ appliances' = [appliances EXCEPT ![a].initialized = TRUE]
                  /\ emitted' = <<[event |-> EVENT_APPLIANCE_INITIAL_UPDATE,
                                   args |-> <<a>>]>>
             ELSE /\ appliances' = appliances
                  /\ emitted' = <<>>
                  /\ tasks' = tasks
     /\ \A a \in Appliances :
          appliances[a].initialized => appliances'[a].initialized
     /\ \A i \in 1..Len(emitted') :
          emitted'[i].event = EVENT_APPLIANCE_INITIAL_UPDATE =>
            /\ ~appliances[emitted'[i].args[1]].initialized
            /\ appliances'[emitted'[i].args[1]].initialized]_vars

\* an update with the appliance type has come for an appliance that was
\* initialized already, with a subscriber registered, and nothing was
\* published
C19_Witness ==
  /\ lastOp.name = "_maybe_trigger_appliance_init_event"
  /\ lastOp.arg = <<"a1", TRUE>>
  /\ appliances["a1"].initialized
  /\ emitted = <<>>
  /\ event_handlers[EVENT_APPLIANCE_INITIAL_UPDATE] # <<>>

\* C20: after any sequence of add_event_handler, remove_event_handler and
\* clear_event_handlers, _on_state_change is registered for STATE_CHANGED
\* and is the first entry of that list.
C20_ListenerFirst ==
  /\ event_handlers[EVENT_STATE_CHANGED] # <<>>
  /\ Head(event_handlers[EVENT_STATE_CHANGED]) = OnStateChangeCb

\* a user has asked to unsubscribe _on_state_change itself, with a callback
\* of their own subscribed behind it
C20_Witness ==
  /\ lastOp.name = "remove_event_handler"
  /\ lastOp.arg = <<EVENT_STATE_CHANGED, OnStateChangeCb>>
  /\ Len(event_handlers[EVENT_STATE_CHANGED]) = 2
  /\ Head(event_handlers[EVENT_STATE_CHANGED]) = OnStateChangeCb

=============================================================================
